---- MODULE Spec2Model ----
(***************************************************************************)
(* IMAP response parsing of imapclient (response_parser.py).               *)
(*                                                                         *)
(* parse_response(text) pulls an IMAP response apart into nested tuples of *)
(* typed values; parse_fetch_response(text) reads the same value stream    *)
(* two values at a time (message number, field list) and builds a table    *)
(* of per-message records.  Both are functions of their input: a state of  *)
(* the model is an input (the response text and its literal payloads)      *)
(* together with the outcome of the call made on it.                       *)
(*                                                                         *)
(* Text is a sequence of one-character strings.  A parsed value is a       *)
(* record [t, n, sec, s, items] with a type tag t: "nil", "int" (n),       *)
(* "str" (s), "tuple" (items) and "datetime" (a naive local time: n days   *)
(* since 0001-01-01 and sec seconds into the day).                         *)
(***************************************************************************)
EXTENDS Integers, Sequences, FiniteSets, TLC

VARIABLES
    text,       \* the response text handed to the call
    literals,   \* the literal payloads that came with the text, in order
    call,       \* "none" before the call, then the entry point that ran
    outcome,    \* "pending", "returned" or "raised"
    ret,        \* parse_response: the tuple returned (a sequence of values)
    table,      \* parse_fetch_response: the dictionary returned
    exc,        \* the exception raised: [type, msg, vals, tok]
    consumed,   \* tokens the lexer had handed out when the call ended
    system_offset, \* <<off>> once the call has read the host's UTC offset
    history,    \* the calls that have returned to the caller, oldest first
    idle,       \* the idle session: [state, waiting, wire, events, window,
                \*   handed, lines, npush, nsessions, acked]
    body        \* the body structure: [sent, done, node], sent being the
                \*   MIME structure the server reported in the text

parserVars == <<text, literals, call, outcome, ret, table, exc, consumed,
                system_offset, history, body>>

vars == <<text, literals, call, outcome, ret, table, exc, consumed,
          system_offset, history, idle, body>>

(***************************************************************************)
(* Bounds of the input families.                                           *)
(***************************************************************************)
MaxTokens == 5      \* tokens of a free token stream
MaxSize == 6        \* values of a FETCH batch
MaxLiterals == 1    \* literal payloads that come with a free token stream
MaxCalls == 3       \* calls made one after the other on an input
RepeatSize == 4     \* values of a FETCH batch that is decoded repeatedly
MaxPush == 3        \* untagged lines the server pushes in one run
MaxSessions == 2    \* idle sessions started in one run
MaxDepth == 2       \* multipart levels of a reported body structure

(***************************************************************************)
(* Characters.                                                             *)
(***************************************************************************)
Digits == {"0", "1", "2", "3", "4", "5", "6", "7", "8", "9"}

DigitVal(c) ==
    CASE c = "0" -> 0 [] c = "1" -> 1 [] c = "2" -> 2 [] c = "3" -> 3
      [] c = "4" -> 4 [] c = "5" -> 5 [] c = "6" -> 6 [] c = "7" -> 7
      [] c = "8" -> 8 [] c = "9" -> 9

Lower == <<"a", "b", "c", "d", "e", "f", "g", "h", "i", "j", "k", "l", "m",
           "n", "o", "p", "q", "r", "s", "t", "u", "v", "w", "x", "y", "z">>
UpperLetters ==
         <<"A", "B", "C", "D", "E", "F", "G", "H", "I", "J", "K", "L", "M",
           "N", "O", "P", "Q", "R", "S", "T", "U", "V", "W", "X", "Y", "Z">>

IsLower(c) == \E i \in 1..26 : Lower[i] = c
IsUpper(c) == \E i \in 1..26 : UpperLetters[i] = c

\* str.upper() on one character
UpperChar(c) ==
    IF IsLower(c) THEN UpperLetters[CHOOSE i \in 1..26 : Lower[i] = c] ELSE c

\* str.upper()
Upper(s) == [i \in 1..Len(s) |-> UpperChar(s[i])]

\* str.isdigit(): non-empty and all decimal digits
IsDigitStr(s) == Len(s) > 0 /\ \A i \in 1..Len(s) : s[i] \in Digits

\* the decimal value of a digit string
RECURSIVE DecVal(_)
DecVal(s) ==
    IF Len(s) = 0 THEN 0
    ELSE 10 * DecVal(SubSeq(s, 1, Len(s) - 1)) + DigitVal(s[Len(s)])

IsSpace(c) == c = " "

RECURSIVE LStrip(_)
LStrip(s) == IF Len(s) > 0 /\ IsSpace(s[1]) THEN LStrip(Tail(s)) ELSE s

RECURSIVE RStrip(_)
RStrip(s) ==
    IF Len(s) > 0 /\ IsSpace(s[Len(s)]) THEN RStrip(SubSeq(s, 1, Len(s) - 1))
    ELSE s

\* int(s) for a string: surrounding blanks and one sign are accepted
IntStrBody(s) ==
    LET u == RStrip(LStrip(s))
    IN  IF Len(u) > 0 /\ u[1] \in {"+", "-"} THEN Tail(u) ELSE u

IntStrOk(s) == IsDigitStr(IntStrBody(s))

IntStrVal(s) ==
    LET u == RStrip(LStrip(s))
    IN  IF Len(u) > 0 /\ u[1] = "-" THEN 0 - DecVal(IntStrBody(s))
        ELSE DecVal(IntStrBody(s))

(***************************************************************************)
(* Parsed values.                                                          *)
(***************************************************************************)
NilV == [t |-> "nil", n |-> 0, sec |-> 0, s |-> <<>>, items |-> <<>>]
IntV(k) == [t |-> "int", n |-> k, sec |-> 0, s |-> <<>>, items |-> <<>>]
StrV(chars) == [t |-> "str", n |-> 0, sec |-> 0, s |-> chars, items |-> <<>>]
TupleV(vs) == [t |-> "tuple", n |-> 0, sec |-> 0, s |-> <<>>, items |-> vs]
DateTimeV(day, secs) ==
    [t |-> "datetime", n |-> day, sec |-> secs, s |-> <<>>, items |-> <<>>]

(***************************************************************************)
(* Exceptions.                                                             *)
(***************************************************************************)
NoExc == [type |-> "none", msg |-> "", vals |-> <<>>, tok |-> <<>>]
Exc(type, msg, vals, tok) ==
    [type |-> type, msg |-> msg, vals |-> vals, tok |-> tok]
ParseError(msg, vals, tok) == Exc("ParseError", msg, vals, tok)

(***************************************************************************)
(* The lexer.  A token is [tok, has_lit, lit]: its text and the literal    *)
(* payload bound to it (src.current_literal when the token is read).       *)
(* Blanks separate atoms, "(" and ")" are tokens of their own, a quoted    *)
(* run is one token with its quotes, and the n-th literal marker {digits}  *)
(* is bound to the n-th payload.                                           *)
(***************************************************************************)
IsParen(c) == c \in {"(", ")"}

\* the end (exclusive) of the quoted run that starts at i
RECURSIVE QuotedEnd(_, _)
QuotedEnd(txt, j) ==
    IF j > Len(txt) THEN j
    ELSE IF txt[j] = "\"" THEN j + 1
    ELSE QuotedEnd(txt, j + 1)

\* the end (exclusive) of the atom that starts at i
RECURSIVE AtomEnd(_, _)
AtomEnd(txt, j) ==
    IF j > Len(txt) \/ IsSpace(txt[j]) \/ IsParen(txt[j]) THEN j
    ELSE AtomEnd(txt, j + 1)

IsLiteralMarker(tok) ==
    /\ Len(tok) >= 3
    /\ tok[1] = "{"
    /\ tok[Len(tok)] = "}"
    /\ IsDigitStr(SubSeq(tok, 2, Len(tok) - 1))

\* the first position from j on that holds no blank, or Len(txt) + 1
SkipSpaces(txt, j) ==
    IF \A k \in j..Len(txt) : IsSpace(txt[k]) THEN Len(txt) + 1
    ELSE CHOOSE k \in j..Len(txt) :
             /\ ~IsSpace(txt[k])
             /\ \A h \in j..(k - 1) : IsSpace(txt[h])

RECURSIVE LexFrom(_, _, _, _)
LexFrom(txt, lits, from, nlit) ==
    IF SkipSpaces(txt, from) > Len(txt) THEN <<>>
    ELSE LET i == SkipSpaces(txt, from)
             e == IF IsParen(txt[i]) THEN i + 1
                  ELSE IF txt[i] = "\"" THEN QuotedEnd(txt, i + 1)
                  ELSE AtomEnd(txt, i + 1)
             tok == SubSeq(txt, i, e - 1)
             marker == IsLiteralMarker(tok)
             bound == marker /\ nlit < Len(lits)
         IN  <<[tok |-> tok,
                has_lit |-> bound,
                lit |-> IF bound THEN lits[nlit + 1] ELSE <<>>]>>
             \o LexFrom(txt, lits, e, IF marker THEN nlit + 1 ELSE nlit)

Lex(txt, lits) == LexFrom(txt, lits, 1, 0)

(***************************************************************************)
(* atom(src, token): the value that starts at token number i.  The result  *)
(* is [ok, val, pos, exc]: pos is the number of the next unread token.     *)
(* ValueError is what int() raises on a marker that is not {digits}.       *)
(***************************************************************************)
AtomOk(v, p) == [ok |-> TRUE, val |-> v, pos |-> p, exc |-> NoExc]
AtomFail(e, p) == [ok |-> FALSE, val |-> NilV, pos |-> p, exc |-> e]

\* Literal without the comparison of the payload's length
Literal_NoLengthCheck(tk, p) ==
    LET token == tk.tok
        digits == SubSeq(token, 2, Len(token) - 1)
    IN  IF ~IntStrOk(digits)
        THEN AtomFail(Exc("ValueError", "invalid literal for int()",
                          <<>>, token), p)
        ELSE IF ~tk.has_lit
        THEN AtomFail(ParseError("No literal corresponds to", <<>>, token), p)
        ELSE AtomOk(StrV(tk.lit), p)

\* the branch of a literal marker: token[0] == '{'
Literal(tk, p) ==
    LET token == tk.tok
        digits == SubSeq(token, 2, Len(token) - 1)
    IN  IF ~IntStrOk(digits)
        THEN AtomFail(Exc("ValueError", "invalid literal for int()",
                          <<>>, token), p)
        ELSE IF ~tk.has_lit
        THEN AtomFail(ParseError("No literal corresponds to", <<>>, token), p)
        ELSE IF Len(tk.lit) # IntStrVal(digits)
        THEN AtomFail(ParseError("Expecting literal of size",
                                 <<IntV(IntStrVal(digits)), IntV(Len(tk.lit))>>,
                                 token), p)
        ELSE AtomOk(StrV(tk.lit), p)

\* Unquote that leaves the quotes on
Unquote_KeepQuotes(token) == token

\* token[1:-1] of a quoted string
Unquote(token) == SubSeq(token, 2, Len(token) - 1)

\* Scalar that takes the quotes off first and types what is left
Scalar_UnquoteFirst(tk, p) ==
    LET token == IF Len(tk.tok) >= 2 /\ tk.tok[1] = "\""
                    /\ tk.tok[Len(tk.tok)] = "\""
                 THEN Unquote(tk.tok) ELSE tk.tok
    IN  IF token = <<"N", "I", "L">> THEN AtomOk(NilV, p)
        ELSE IF token # <<>> /\ token[1] = "{" THEN Literal(tk, p)
        ELSE IF IsDigitStr(token) THEN AtomOk(IntV(DecVal(token)), p)
        ELSE AtomOk(StrV(token), p)

\* the branches of atom for a token that opens no list
Scalar(tk, p) ==
    LET token == tk.tok
    IN  IF token = <<"N", "I", "L">> THEN AtomOk(NilV, p)
        ELSE IF token[1] = "{" THEN Literal(tk, p)
        ELSE IF Len(token) >= 2 /\ token[1] = "\"" /\ token[Len(token)] = "\""
        THEN AtomOk(StrV(Unquote(token)), p)
        ELSE IF IsDigitStr(token) THEN AtomOk(IntV(DecVal(token)), p)
        ELSE AtomOk(StrV(token), p)

\* Collect that splices a nested list into its parent
Collect_Flatten(out, value) ==
    IF value.t = "tuple" THEN out \o value.items ELSE Append(out, value)

\* out.append(value) in an open list
Collect(out, value) == Append(out, value)

\* NoTerminator that closes the list at the end of the input
NoTerminator_Truncate(out, j) == AtomOk(TupleV(out), j)

\* the token source ran out inside an open list: "oops - no terminator!"
NoTerminator(out, j) ==
    AtomFail(ParseError("Tuple incomplete before", out, <<>>), j)

\* NewList where out is one list shared by all calls and never emptied:
\* it still holds the items of the list the call before ended with
NewList_Shared ==
    IF history # <<>> /\ history[Len(history)].ret # <<>>
       /\ history[Len(history)].ret[Len(history[Len(history)].ret)].t = "tuple"
    THEN history[Len(history)].ret[Len(history[Len(history)].ret)].items
    ELSE <<>>

\* out = []
NewList == <<>>

RECURSIVE atom(_, _)
RECURSIVE TupleLoop(_, _, _)

\* the loop "for token in src" of an open list, out being what it has so far
TupleLoop(toks, j, out) ==
    IF j > Len(toks) THEN NoTerminator(out, j)
    ELSE IF toks[j].tok = <<")">> THEN AtomOk(TupleV(out), j + 1)
    ELSE LET r == atom(toks, j)
         IN  IF r.ok THEN TupleLoop(toks, r.pos, Collect(out, r.val)) ELSE r

atom(toks, i) ==
    IF toks[i].tok = <<"(">> THEN TupleLoop(toks, i + 1, NewList)
    ELSE Scalar(toks[i], i + 1)

(***************************************************************************)
(* gen_parsed_response: one step of the generator is one top-level value.  *)
(* A ValueError on the way is raised again as a ParseError that carries    *)
(* the generator's own token, the one the top-level value started with.    *)
(***************************************************************************)
GenNext(toks, i) ==
    IF i > Len(toks)
    THEN [kind |-> "stop", val |-> NilV, pos |-> i, exc |-> NoExc]
    ELSE LET r == atom(toks, i)
         IN  IF r.ok
             THEN [kind |-> "value", val |-> r.val, pos |-> r.pos, exc |-> NoExc]
             ELSE [kind |-> "raise", val |-> NilV, pos |-> r.pos,
                   exc |-> IF r.exc.type = "ValueError"
                           THEN ParseError(r.exc.msg, <<>>, toks[i].tok)
                           ELSE r.exc]

\* tuple(gen_parsed_response(text)): [ok, vals, pos, exc]
RECURSIVE GenAll(_, _, _)
GenAll(toks, i, out) ==
    LET g == GenNext(toks, i)
    IN  IF g.kind = "stop"
        THEN [ok |-> TRUE, vals |-> out, pos |-> g.pos, exc |-> NoExc]
        ELSE IF g.kind = "raise"
        THEN [ok |-> FALSE, vals |-> <<>>, pos |-> g.pos, exc |-> g.exc]
        ELSE GenAll(toks, g.pos, Append(out, g.val))

parse_response(txt, lits) == GenAll(Lex(txt, lits), 1, <<>>)

(***************************************************************************)
(* _int_or_error(value, error_text): int(value), any TypeError or          *)
(* ValueError becoming a ParseError.  int() takes an integer as it is and  *)
(* converts a string that spells one; None and tuples are a TypeError.     *)
(***************************************************************************)
IntConvertible(v) == v.t = "int" \/ (v.t = "str" /\ IntStrOk(v.s))

IntOf(v) == IF v.t = "int" THEN v.n ELSE IntStrVal(v.s)

\* _int_or_error that catches ValueError only: the TypeError of int(None)
\* or int(()) gets out as it is
_int_or_error_ValueErrorOnly(value, error_text) ==
    IF IntConvertible(value)
    THEN [ok |-> TRUE, n |-> IntOf(value), exc |-> NoExc]
    ELSE IF value.t = "str"
    THEN [ok |-> FALSE, n |-> 0, exc |-> ParseError(error_text, <<value>>, <<>>)]
    ELSE [ok |-> FALSE, n |-> 0,
          exc |-> Exc("TypeError", "int() argument", <<value>>, <<>>)]

_int_or_error(value, error_text) ==
    IF IntConvertible(value)
    THEN [ok |-> TRUE, n |-> IntOf(value), exc |-> NoExc]
    ELSE [ok |-> FALSE, n |-> 0, exc |-> ParseError(error_text, <<value>>, <<>>)]

(***************************************************************************)
(* _convert_INTERNALDATE(date_string) with the host's UTC offset `off`     *)
(* (minutes), the value FixedOffset.for_system() gives.  The result is     *)
(* [ok, val, exc].                                                         *)
(***************************************************************************)
MonthNames ==
    << <<"J","a","n">>, <<"F","e","b">>, <<"M","a","r">>, <<"A","p","r">>,
       <<"M","a","y">>, <<"J","u","n">>, <<"J","u","l">>, <<"A","u","g">>,
       <<"S","e","p">>, <<"O","c","t">>, <<"N","o","v">>, <<"D","e","c">> >>

\* imaplib.Mon2num
IsMonth(m) == \E i \in 1..12 : MonthNames[i] = m
Mon2num(m) == CHOOSE i \in 1..12 : MonthNames[i] = m

IsLeap(y) == (y % 4 = 0) /\ ((y % 100 # 0) \/ (y % 400 = 0))

DaysInMonth(y, m) ==
    IF m = 2 THEN (IF IsLeap(y) THEN 29 ELSE 28)
    ELSE IF m \in {4, 6, 9, 11} THEN 30 ELSE 31

RECURSIVE DaysBeforeMonth(_, _)
DaysBeforeMonth(y, m) ==
    IF m = 1 THEN 0 ELSE DaysBeforeMonth(y, m - 1) + DaysInMonth(y, m - 1)

DaysBeforeYear(y) ==
    (y - 1) * 365 + ((y - 1) \div 4) - ((y - 1) \div 100) + ((y - 1) \div 400)

\* days from 0001-01-01 to the given date
WallDays(y, m, d) == DaysBeforeYear(y) + DaysBeforeMonth(y, m) + (d - 1)

\* the text that 'INTERNALDATE "%s"' % date_string puts between the quotes;
\* a tuple is taken by % as its argument list and must have one element
FormatFits(v) == v.t # "tuple" \/ Len(v.items) = 1

FormatArg(v) == IF v.t = "tuple" THEN v.items[1] ELSE v

\* imaplib.InternalDate matches: dd-Mon-yyyy HH:mm:ss +zzzz, then the quote
\* (a text that itself holds the word INTERNALDATE and a quote is left out)
DateMatches(s) ==
    /\ Len(s) >= 26
    /\ (Len(s) = 26 \/ s[27] = "\"")
    /\ s[1] \in {" ", "0", "1", "2", "3"} /\ s[2] \in Digits
    /\ s[3] = "-"
    /\ IsUpper(s[4]) /\ IsLower(s[5]) /\ IsLower(s[6])
    /\ s[7] = "-"
    /\ \A i \in 8..11 : s[i] \in Digits
    /\ s[12] = " "
    /\ s[13] \in Digits /\ s[14] \in Digits /\ s[15] = ":"
    /\ s[16] \in Digits /\ s[17] \in Digits /\ s[18] = ":"
    /\ s[19] \in Digits /\ s[20] \in Digits /\ s[21] = " "
    /\ s[22] \in {"+", "-"}
    /\ \A i \in 23..26 : s[i] \in Digits

MaxDays == DaysBeforeYear(10000)

ConvOk(v) == [ok |-> TRUE, val |-> v, exc |-> NoExc]
ConvFail(type, msg, v) ==
    [ok |-> FALSE, val |-> NilV, exc |-> Exc(type, msg, <<v>>, <<>>)]

\* ZoneMinutes without the test of the sign
ZoneMinutes_IgnoreSign(zonen, zoneh, zonemin) == (zoneh * 60) + zonemin

\* zonem: the declared offset in minutes, negative for '-'
ZoneMinutes(zonen, zoneh, zonemin) ==
    IF zonen = "-" THEN 0 - ((zoneh * 60) + zonemin)
    ELSE (zoneh * 60) + zonemin

_convert_INTERNALDATE(date_string, off) ==
    IF ~FormatFits(date_string)
    THEN ConvFail("TypeError", "string formatting", date_string)
    ELSE IF ~(FormatArg(date_string).t = "str"
              /\ DateMatches(FormatArg(date_string).s))
    THEN ConvFail("ValueError", "couldn't parse date", date_string)
    ELSE
    LET s == FormatArg(date_string).s
        zonem == ZoneMinutes(s[22], DecVal(SubSeq(s, 23, 24)),
                             DecVal(SubSeq(s, 25, 26)))
        year == DecVal(SubSeq(s, 8, 11))
        monname == SubSeq(s, 4, 6)
        day == IntStrVal(SubSeq(s, 1, 2))
        hour == DecVal(SubSeq(s, 13, 14))
        min == DecVal(SubSeq(s, 16, 17))
        sec == DecVal(SubSeq(s, 19, 20))
    IN  IF ~IsMonth(monname)
        THEN ConvFail("KeyError", "Mon2num", date_string)
        ELSE IF ~(/\ year >= 1
                  /\ day >= 1 /\ day <= DaysInMonth(year, Mon2num(monname))
                  /\ hour <= 23 /\ min <= 59 /\ sec <= 59)
        THEN ConvFail("ValueError", "datetime out of range", date_string)
        ELSE IF ~(zonem > -1440 /\ zonem < 1440)
        THEN ConvFail("ValueError", "utcoffset out of range", date_string)
        ELSE LET secs == hour * 3600 + min * 60 + sec - zonem * 60 + off * 60
                 days == WallDays(year, Mon2num(monname), day)
                         + (secs \div 86400)
             IN  IF days < 0 \/ days >= MaxDays
                 THEN ConvFail("OverflowError", "date value out of range",
                               date_string)
                 ELSE ConvOk(DateTimeV(days, secs % 86400))

(***************************************************************************)
(* parse_fetch_response.                                                   *)
(***************************************************************************)
kSEQ == <<"S", "E", "Q">>
kUID == <<"U", "I", "D">>
kINTERNALDATE == <<"I","N","T","E","R","N","A","L","D","A","T","E">>

\* DictSet that leaves alone a key the dictionary already has
DictSet_KeepFirst(d, k, v) == IF k \in DOMAIN d THEN d ELSE (k :> v) @@ d

\* d[k] = v on a dictionary
DictSet(d, k, v) == (k :> v) @@ d

\* ResponseCheck without the test for an odd number of items
ResponseCheck_NoEvenTest(msg_response) ==
    IF msg_response.t # "tuple"
    THEN ParseError("bad response type", <<msg_response>>, <<>>)
    ELSE NoExc

\* the checks on what follows a message number: the error, or NoExc
ResponseCheck(msg_response) ==
    IF msg_response.t # "tuple"
    THEN ParseError("bad response type", <<msg_response>>, <<>>)
    ELSE IF Len(msg_response.items) % 2 # 0
    THEN ParseError("uneven number of response items", <<msg_response>>, <<>>)
    ELSE NoExc

\* FieldWord that keeps the name as it was received
FieldWord_AsReceived(name) == name.s

\* word = msg_response[i].upper()
FieldWord(name) == Upper(name.s)

\* msg_data = {'SEQ': msg_id}
NewRecord(msg_id) == (kSEQ :> IntV(msg_id))

\* MessageId that goes on with message number 0 when the value is no number
MessageId_Default(value) ==
    IF IntConvertible(value) THEN _int_or_error(value, "invalid message ID")
    ELSE [ok |-> TRUE, n |-> 0, exc |-> NoExc]

\* msg_id = _int_or_error(response.next(), 'invalid message ID')
MessageId(value) == _int_or_error(value, "invalid message ID")

\* parsed_response[msg_id] = msg_data
Store(parsed_response, msg_id, msg_data) ==
    DictSet(parsed_response, msg_id, msg_data)

\* StoredValue that stores NIL as the empty text
StoredValue_NilAsEmpty(value) ==
    IF value.t = "nil" THEN StrV(<<>>) ELSE value

\* msg_data[word] = value: what is stored for a field that is not special
StoredValue(value) == value

\* AfterUID that starts the record afresh when the key changes
AfterUID_Restart(msg_data, uid) == (kSEQ :> msg_data[kSEQ])

\* the record after a UID pair: the pair sets msg_id and nothing in msg_data
AfterUID(msg_data, uid) == msg_data

\* the loop over the field list: [ok, msg_id, msg_data, exc, tz]
\* tz is TRUE once the host's time zone has been read
RECURSIVE FieldLoop(_, _, _, _, _, _)
FieldLoop(msg_response, i, msg_id, msg_data, off, tz) ==
    IF i > Len(msg_response)
    THEN [ok |-> TRUE, msg_id |-> msg_id, msg_data |-> msg_data,
          exc |-> NoExc, tz |-> tz]
    ELSE IF msg_response[i].t # "str"
    THEN [ok |-> FALSE, msg_id |-> msg_id, msg_data |-> msg_data,
          exc |-> Exc("AttributeError", "upper", <<msg_response[i]>>, <<>>),
          tz |-> tz]
    ELSE IF i + 1 > Len(msg_response)
    THEN [ok |-> FALSE, msg_id |-> msg_id, msg_data |-> msg_data,
          exc |-> Exc("IndexError", "list index out of range", <<>>, <<>>),
          tz |-> tz]
    ELSE
    LET word == FieldWord(msg_response[i])
        value == msg_response[i + 1]
    IN  IF word = kUID THEN
            LET r == _int_or_error(value, "invalid UID")
            IN  IF r.ok
                THEN FieldLoop(msg_response, i + 2, r.n,
                               AfterUID(msg_data, r.n), off, tz)
                ELSE [ok |-> FALSE, msg_id |-> msg_id, msg_data |-> msg_data,
                      exc |-> r.exc, tz |-> tz]
        ELSE IF word = kINTERNALDATE THEN
            LET c == _convert_INTERNALDATE(value, off)
            IN  IF c.ok
                THEN FieldLoop(msg_response, i + 2, msg_id,
                               DictSet(msg_data, word, c.val), off, TRUE)
                ELSE [ok |-> FALSE, msg_id |-> msg_id, msg_data |-> msg_data,
                      exc |-> c.exc, tz |-> tz]
        ELSE FieldLoop(msg_response, i + 2, msg_id,
                       DictSet(msg_data, word, StoredValue(value)), off, tz)

FetchFail(e, p, tz) ==
    [ok |-> FALSE, table |-> <<>>, pos |-> p, exc |-> e, tz |-> tz]

\* the loop "while True" from token i on, parsed_response being the table so far
RECURSIVE FetchLoop(_, _, _, _, _)
FetchLoop(toks, i, parsed_response, off, tz) ==
    LET g1 == GenNext(toks, i)
    IN  IF g1.kind = "stop"
        THEN [ok |-> TRUE, table |-> parsed_response, pos |-> g1.pos,
              exc |-> NoExc, tz |-> tz]
        ELSE IF g1.kind = "raise" THEN FetchFail(g1.exc, g1.pos, tz)
        ELSE
        LET id == MessageId(g1.val)
        IN  IF ~id.ok THEN FetchFail(id.exc, g1.pos, tz)
            ELSE
            LET g2 == GenNext(toks, g1.pos)
            IN  IF g2.kind = "stop"
                THEN FetchFail(ParseError("unexpected EOF", <<>>, <<>>),
                               g2.pos, tz)
                ELSE IF g2.kind = "raise" THEN FetchFail(g2.exc, g2.pos, tz)
                ELSE IF ResponseCheck(g2.val) # NoExc
                THEN FetchFail(ResponseCheck(g2.val), g2.pos, tz)
                ELSE
                LET f == FieldLoop(g2.val.items, 1, id.n, NewRecord(id.n),
                                   off, tz)
                IN  IF ~f.ok THEN FetchFail(f.exc, g2.pos, f.tz)
                    ELSE FetchLoop(toks, g2.pos,
                                   Store(parsed_response, f.msg_id,
                                         f.msg_data),
                                   off, f.tz)

parse_fetch_response(txt, lits, off) ==
    FetchLoop(Lex(txt, lits), 1, <<>>, off, FALSE)

(***************************************************************************)
(* The inputs.  A response text is written from a sequence of tokens the   *)
(* way servers write it: one blank between two tokens, none after "(",     *)
(* before ")" and between ")" and "(".                                     *)
(***************************************************************************)
tOpen == <<"(">>
tClose == <<")">>
tNIL == <<"N", "I", "L">>
t123 == <<"1", "2", "3">>
t42 == <<"4", "2">>
t7 == <<"7">>
tQfoo == <<"\"", "f", "o", "o", "\"">>
tQ7 == <<"\"", "7", "\"">>
tAb == <<"A", "b">>
tLit2 == <<"{", "2", "}">>
tUID == <<"U", "I", "D">>
tuid == <<"u", "i", "d">>
tSEQ == kSEQ
tseq == <<"s", "e", "q">>
tINTERNALDATE == kINTERNALDATE
tinternaldate == <<"i","n","t","e","r","n","a","l","d","a","t","e">>
tDate == <<"\"", "1","6","-","M","a","r","-","2","0","1","0"," ",
           "1","6",":","4","5",":","3","2"," ","+","0","1","0","0", "\"">>

Glued(a, b) == a = tOpen \/ b = tClose \/ (a = tClose /\ b = tOpen)

RECURSIVE Render(_)
Render(toks) ==
    IF Len(toks) = 0 THEN <<>>
    ELSE IF Len(toks) = 1 THEN toks[1]
    ELSE toks[1] \o (IF Glued(toks[1], toks[2]) THEN <<>> ELSE <<" ">>)
                 \o Render(Tail(toks))

SeqsUpTo(S, n) == UNION {[1..k -> S] : k \in 0..n}

\* free token streams, for parse_response
FreeTokens == {tOpen, tClose, tNIL, t123, tQfoo, tAb, tLit2}
Payloads == {<<"h", "i">>, <<"h">>}

Markers(toks) == Cardinality({i \in 1..Len(toks) : toks[i] = tLit2})

Min(a, b) == IF a < b THEN a ELSE b

LiteralLists(toks) == SeqsUpTo(Payloads, Min(Markers(toks), MaxLiterals))

\* FETCH batches, for parse_fetch_response: messages of a message number
\* and a field list of name/value pairs, also cut short or ill-formed.  The
\* size of a batch counts its values: 1 for a message number, 1 for a field
\* list, 2 for a name/value pair, 1 for a name left without a value.
IdTokens == {<<t7>>, <<t42>>, <<tQ7>>, <<tNIL>>, <<tAb>>, <<tOpen, tClose>>}
NameTokens == {tUID, tuid, tSEQ, tseq, tAb, tINTERNALDATE, tinternaldate,
               t42}
ValueTokens == {<<t42>>, <<t7>>, <<tNIL>>, <<tOpen, tAb, tNIL, tClose>>,
                <<tDate>>}
Pairs == {<<nm>> \o v : nm \in NameTokens, v \in ValueTokens}

RECURSIVE PairSeqs(_)
PairSeqs(n) ==
    IF n = 0 THEN {<<>>}
    ELSE {p \o rest : p \in Pairs, rest \in PairSeqs(n - 1)}

\* what follows a message number, by size: a value that is no list, a list
\* left open, or a field list
Bodies(c) ==
    {<<tOpen>> \o ps \o (IF c % 2 = 0 THEN <<tAb>> ELSE <<>>) \o <<tClose>>
       : ps \in PairSeqs((c - 1) \div 2)}
    \cup (IF c = 1 THEN {<<t42>>, <<tOpen, tAb>>} ELSE {})

Messages(c) == {id \o b : id \in IdTokens, b \in Bodies(c - 1)}

RECURSIVE WholeBatches(_)
WholeBatches(size) ==
    {<<>>} \cup
    UNION {{m \o rest : m \in Messages(k), rest \in WholeBatches(size - k)}
           : k \in 2..size}

\* batches of whole messages, and those that end right after a message number
Batches(size) ==
    WholeBatches(size) \cup {b \o <<t7>> : b \in WholeBatches(size - 1)}

HostOffsets == {-300, 60}

\* INTERNALDATE texts, for the conversion: dd-Mon-yyyy HH:mm:ss +zzzz
DateDays == {<<"0", "1">>, <<"1", "6">>, <<"3", "1">>}
DateMonths == {MonthNames[1], MonthNames[2], MonthNames[3], MonthNames[12]}
DateYears == {<<"0","0","0","1">>, <<"2","0","1","0">>, <<"9","9","9","9">>}
DateTimes == {<<"0","0",":","0","0",":","0","0">>,
              <<"1","6",":","4","5",":","3","2">>,
              <<"2","3",":","5","9",":","5","9">>}
DateZones == {<<"0","0","0","0">>, <<"0","1","0","0">>, <<"0","4","3","0">>,
              <<"1","4","0","0">>}
DateTexts ==
    {d \o <<"-">> \o m \o <<"-">> \o y \o <<" ">> \o t \o <<" ", n>> \o z
       : d \in DateDays, m \in DateMonths, y \in DateYears, t \in DateTimes,
         n \in {"+", "-"}, z \in DateZones}

\* one message whose field list is INTERNALDATE and the date, quoted
DateMessage(date) ==
    Render(<<t7, tOpen, tINTERNALDATE, <<"\"">> \o date \o <<"\"">>, tClose>>)

(***************************************************************************)
(* The idle session.  The server's lines wait on the wire until the        *)
(* session reads them; an untagged line is parsed and classified by its    *)
(* leading number and trailing keyword.                                    *)
(***************************************************************************)
kEXISTS == <<"E", "X", "I", "S", "T", "S">>
kEXPUNGE == <<"E", "X", "P", "U", "N", "G", "E">>

\* the untagged lines the server pushes (after the "* ")
PushLines == {<<"1", " ">> \o kEXISTS, <<"1", " ">> \o kEXPUNGE,
              <<"2", " ">> \o kEXISTS}

\* the text of the tagged line that ends the IDLE command
AckText == <<"I", "d", "l", "e", " ", "d", "o", "n", "e">>

NoResult == [op |-> "none", events |-> <<>>, text |-> <<>>, error |-> FALSE]

IdleInit ==
    [state |-> "Idle", waiting |-> FALSE, wire |-> <<>>, events |-> <<>>,
     window |-> <<>>, handed |-> NoResult, lines |-> <<>>, npush |-> 0,
     nsessions |-> 0, acked |-> FALSE]

\* Classify that takes the keyword alone, with number 0
Classify_NoNumber(line) ==
    LET r == parse_response(line, <<>>)
    IN  <<0, r.vals[Len(r.vals)].s>>

\* the event of an untagged line: (leading integer, trailing keyword)
Classify(line) ==
    LET r == parse_response(line, <<>>)
    IN  <<r.vals[1].n, r.vals[Len(r.vals)].s>>

\* Collected that puts the newest event first
Collected_Newest(events, line) == <<Classify(line)>> \o events

\* the event list after one more line was classified
Collected(events, line) == Append(events, Classify(line))

(***************************************************************************)
(* Body structures.  A reported MIME structure is a leaf, with or without  *)
(* a parameter list, or a multipart node of one part or of two parts of    *)
(* which one is a leaf; the server                                         *)
(* writes it as the BODY field of message 7.  The builder gives a node     *)
(* [is_multipart, parts, rest].                                            *)
(***************************************************************************)
kBODY == <<"B", "O", "D", "Y">>
tQtext == <<"\"", "t", "e", "x", "t", "\"">>
tQplain == <<"\"", "p", "l", "a", "i", "n", "\"">>
tQcharset == <<"\"", "c", "h", "a", "r", "s", "e", "t", "\"">>
tQusascii == <<"\"", "u", "s", "-", "a", "s", "c", "i", "i", "\"">>
tQ7bit == <<"\"", "7", "b", "i", "t", "\"">>
tQmixed == <<"\"", "m", "i", "x", "e", "d", "\"">>
tQboundary == <<"\"", "b", "o", "u", "n", "d", "a", "r", "y", "\"">>

Leaf(params) == [multi |-> FALSE, params |-> params, kids |-> <<>>]
Multi(kids) == [multi |-> TRUE, params |-> TRUE, kids |-> kids]

RECURSIVE Shapes(_)
Shapes(d) ==
    IF d = 0 THEN {Leaf(TRUE), Leaf(FALSE)}
    ELSE Shapes(d - 1)
         \cup {Multi(<<a>>) : a \in Shapes(d - 1)}
         \cup {Multi(<<a, b>>) : a \in Shapes(d - 1), b \in Shapes(0)}
         \cup {Multi(<<a, b>>) : a \in Shapes(0), b \in Shapes(d - 1)}

RECURSIVE BodyTokens(_)
BodyTokens(sh) ==
    IF sh.multi
    THEN <<tOpen>>
         \o BodyTokens(sh.kids[1])
         \o (IF Len(sh.kids) = 2 THEN BodyTokens(sh.kids[2]) ELSE <<>>)
         \o <<tQmixed, tOpen, tQboundary, tQfoo, tClose, tClose>>
    ELSE <<tOpen, tQtext, tQplain>>
         \o (IF sh.params THEN <<tOpen, tQcharset, tQusascii, tClose>>
             ELSE <<tNIL>>)
         \o <<tQ7bit, t7, tClose>>

BodyMessage(sh) ==
    Render(<<t7, tOpen, kBODY>> \o BodyTokens(sh) \o <<tClose>>)

NoNode == [is_multipart |-> FALSE, parts |-> <<>>, rest |-> <<>>]
NoBody == [sent |-> Leaf(FALSE), done |-> FALSE, node |-> NoNode]

\* IsMultipart that looks for a list anywhere in the value
IsMultipart_AnyList(value) ==
    \E i \in 1..Len(value.items) : value.items[i].t = "tuple"

\* the first element of the parsed list is itself a list
IsMultipart(value) ==
    value.items # <<>> /\ value.items[1].t = "tuple"

\* the number of lists the value starts with: the parts
LeadingLists(value) ==
    IF \A i \in 1..Len(value.items) : value.items[i].t = "tuple"
    THEN Len(value.items)
    ELSE (CHOOSE i \in 1..Len(value.items) :
              /\ value.items[i].t # "tuple"
              /\ \A k \in 1..(i - 1) : value.items[k].t = "tuple") - 1

RECURSIVE BodyData(_)
BodyData(value) ==
    IF IsMultipart(value)
    THEN [is_multipart |-> TRUE,
          parts |-> [i \in 1..LeadingLists(value)
                        |-> BodyData(value.items[i])],
          rest |-> SubSeq(value.items, LeadingLists(value) + 1,
                          Len(value.items))]
    ELSE [is_multipart |-> FALSE, parts |-> <<>>, rest |-> value.items]

(***************************************************************************)
(* The state machine: an input, then one call on it.                       *)
(***************************************************************************)
InitCall ==
    /\ call = "none"
    /\ outcome = "pending"
    /\ ret = <<>>
    /\ table = <<>>
    /\ exc = NoExc
    /\ consumed = 0
    /\ system_offset = <<>>
    /\ history = <<>>
    /\ idle = IdleInit

Init ==
    /\ \E toks \in SeqsUpTo(FreeTokens, MaxTokens) :
          /\ text = Render(toks)
          /\ literals \in LiteralLists(toks)
    /\ InitCall
    /\ body = NoBody

InitFetch ==
    /\ \E toks \in Batches(MaxSize) : text = Render(toks)
    /\ literals = <<>>
    /\ InitCall
    /\ body = NoBody

CallParseResponse ==
    /\ call = "none"
    /\ \E r \in {parse_response(text, literals)} :
           /\ outcome' = IF r.ok THEN "returned" ELSE "raised"
           /\ ret' = r.vals
           /\ exc' = r.exc
           /\ consumed' = r.pos - 1
    /\ call' = "parse_response"
    /\ UNCHANGED <<text, literals, table, system_offset, history, idle, body>>

CallParseFetchResponse ==
    /\ call = "none"
    /\ \E off \in HostOffsets :
          \E r \in {parse_fetch_response(text, literals, off)} :
              /\ outcome' = IF r.ok THEN "returned" ELSE "raised"
              /\ table' = r.table
              /\ exc' = r.exc
              /\ consumed' = r.pos - 1
              /\ system_offset' = IF r.tz THEN <<off>> ELSE <<>>
    /\ call' = "parse_fetch_response"
    /\ UNCHANGED <<text, literals, ret, history, idle, body>>

Next == CallParseResponse \/ CallParseFetchResponse

Spec == Init /\ [][Next]_vars

SpecFetch == InitFetch /\ [][Next]_vars

\* the call is over: the caller has its result and may call again
Return ==
    /\ call # "none"
    /\ Len(history) < MaxCalls
    /\ history' = Append(history,
                         [call |-> call, outcome |-> outcome, ret |-> ret,
                          table |-> table, exc |-> exc,
                          system_offset |-> system_offset])
    /\ call' = "none"
    /\ outcome' = "pending"
    /\ ret' = <<>>
    /\ table' = <<>>
    /\ exc' = NoExc
    /\ consumed' = 0
    /\ system_offset' = <<>>
    /\ UNCHANGED <<text, literals, idle, body>>

InitRepeat ==
    /\ \E toks \in Batches(RepeatSize) : text = Render(toks)
    /\ literals = <<>>
    /\ InitCall
    /\ body = NoBody

NextRepeat == CallParseResponse \/ CallParseFetchResponse \/ Return

SpecRepeat == InitRepeat /\ [][NextRepeat]_vars

(***************************************************************************)
(* The steps of the idle session and of the server it listens to.          *)
(***************************************************************************)
\* idle(): the IDLE command is sent and the server's continuation read
IdleStart ==
    /\ idle.state = "Idle"
    /\ idle.nsessions < MaxSessions
    /\ idle' = [idle EXCEPT !.state = "Listening", !.lines = <<>>,
                            !.nsessions = @ + 1, !.acked = FALSE]
    /\ UNCHANGED parserVars

\* the server pushes an untagged line while the IDLE command is outstanding
ServerPush ==
    /\ idle.state \in {"Listening", "Draining"}
    /\ ~idle.acked
    /\ idle.npush < MaxPush
    /\ \E line \in PushLines :
          idle' = [idle EXCEPT !.wire = Append(@, [tagged |-> FALSE,
                                                  txt |-> line]),
                              !.npush = @ + 1]
    /\ UNCHANGED parserVars

\* idle_check(timeout): the wait begins
WaitBegin ==
    /\ idle.state = "Listening"
    /\ ~idle.waiting
    /\ idle' = [idle EXCEPT !.waiting = TRUE, !.window = <<>>]
    /\ UNCHANGED parserVars

\* a line arrives within the wait and is classified
WaitRead ==
    /\ idle.waiting
    /\ idle.wire # <<>>
    /\ idle' = [idle EXCEPT !.wire = Tail(@),
                            !.events = Collected(@, idle.wire[1].txt),
                            !.window = Collected(@, idle.wire[1].txt),
                            !.lines = Append(@, idle.wire[1].txt)]
    /\ UNCHANGED parserVars

\* WaitOver that ends the session when the timeout elapses
WaitOver_EndsSession(st) == "Idle"

\* the state of the session after a wait has ended
WaitOver(st) == st

\* the timeout elapses: the wait returns what it has collected
WaitTimeout ==
    /\ idle.waiting
    /\ idle' = [idle EXCEPT !.waiting = FALSE,
                            !.state = WaitOver(@),
                            !.handed = [op |-> "idle_check",
                                        events |-> idle.window,
                                        text |-> <<>>, error |-> FALSE]]
    /\ UNCHANGED parserVars

\* the read fails within the wait: the failure goes to the caller
WaitFail ==
    /\ idle.waiting
    /\ idle' = [idle EXCEPT !.waiting = FALSE,
                            !.state = WaitOver(@),
                            !.handed = [op |-> "idle_check", events |-> <<>>,
                                        text |-> <<>>, error |-> TRUE]]
    /\ UNCHANGED parserVars

\* idle_done(): DONE is sent
StopRequest ==
    /\ idle.state = "Listening"
    /\ ~idle.waiting
    /\ idle' = [idle EXCEPT !.state = "Draining"]
    /\ UNCHANGED parserVars

\* the server answers DONE with the tagged line that ends the command
ServerAck ==
    /\ idle.state = "Draining"
    /\ ~idle.acked
    /\ idle' = [idle EXCEPT !.wire = Append(@, [tagged |-> TRUE,
                                                txt |-> AckText]),
                            !.acked = TRUE]
    /\ UNCHANGED parserVars

\* Drained that takes any line for the acknowledgement
Drained_AnyLine(line) == TRUE

\* the line is the tagged acknowledgement of DONE
Drained(line) == line.tagged

\* idle_done() reads an untagged line that came before the acknowledgement
DrainRead ==
    /\ idle.state = "Draining"
    /\ idle.wire # <<>>
    /\ ~Drained(idle.wire[1])
    /\ idle' = [idle EXCEPT !.wire = Tail(@),
                            !.events = Collected(@, idle.wire[1].txt),
                            !.lines = Append(@, idle.wire[1].txt)]
    /\ UNCHANGED parserVars

\* Cleared that leaves the events in the session's list
Cleared_Kept(events) == events

\* the session's list after the events were handed over
Cleared(events) == <<>>

\* idle_done() reads the acknowledgement and returns
DrainAck ==
    /\ idle.state = "Draining"
    /\ idle.wire # <<>>
    /\ Drained(idle.wire[1])
    /\ idle' = [idle EXCEPT !.wire = Tail(@),
                            !.state = "Idle",
                            !.events = Cleared(@),
                            !.handed = [op |-> "idle_done",
                                        events |-> idle.events,
                                        text |-> idle.wire[1].txt,
                                        error |-> FALSE]]
    /\ UNCHANGED parserVars

InitIdle ==
    /\ text = <<>>
    /\ literals = <<>>
    /\ InitCall
    /\ body = NoBody

NextIdle ==
    \/ IdleStart \/ ServerPush \/ WaitBegin \/ WaitRead \/ WaitTimeout
    \/ WaitFail \/ StopRequest \/ ServerAck \/ DrainRead \/ DrainAck

SpecIdle == InitIdle /\ [][NextIdle]_vars

InitDate ==
    /\ \E date \in DateTexts : text = DateMessage(date)
    /\ literals = <<>>
    /\ InitCall
    /\ body = NoBody

(***************************************************************************)
(* The body structure builder, applied to the BODY value of a decoded      *)
(* message.                                                                *)
(***************************************************************************)
BuildBodyStructure ==
    /\ call = "parse_fetch_response"
    /\ outcome = "returned"
    /\ ~body.done
    /\ 7 \in DOMAIN table
    /\ kBODY \in DOMAIN table[7]
    /\ table[7][kBODY].t = "tuple"
    /\ body' = [body EXCEPT !.done = TRUE,
                            !.node = BodyData(table[7][kBODY])]
    /\ UNCHANGED <<text, literals, call, outcome, ret, table, exc, consumed,
                   system_offset, history, idle>>

InitBody ==
    /\ \E sh \in Shapes(MaxDepth) :
          /\ text = BodyMessage(sh)
          /\ body = [sent |-> sh, done |-> FALSE, node |-> NoNode]
    /\ literals = <<>>
    /\ InitCall

NextBody == CallParseFetchResponse \/ BuildBodyStructure

SpecBody == InitBody /\ [][NextBody]_vars

SpecDate == InitDate /\ [][Next]_vars

(***************************************************************************)
(* Properties of parse_response.                                           *)
(***************************************************************************)
IsOpen(tk) == tk.tok = <<"(">>
IsClose(tk) == tk.tok = <<")">>
IsNILToken(tok) == tok = <<"N", "I", "L">>
IsQuotedToken(tok) ==
    Len(tok) >= 2 /\ tok[1] = "\"" /\ tok[Len(tok)] = "\""
StartsLiteral(tok) == tok[1] = "{"

\* the number of tokens among toks[a..b] that satisfy neither/either paren
Opens(toks, a, b) == Cardinality({i \in a..b : IsOpen(toks[i])})
Closes(toks, a, b) == Cardinality({i \in a..b : IsClose(toks[i])})

\* toks[a..b] has every "(" closed and closes nothing it did not open
BalancedRange(toks, a, b) ==
    /\ \A k \in a..b : Closes(toks, a, k) <= Opens(toks, a, k)
    /\ Closes(toks, a, b) = Opens(toks, a, b)

Balanced(toks) == BalancedRange(toks, 1, Len(toks))

\* a tuple tree written back as a flat sequence: "(" and ")" around the
\* elements of every tuple, and every other value as it is
Piece(p, v) == [p |-> p, v |-> v]

RECURSIVE Unparse(_)
Unparse(vs) ==
    IF Len(vs) = 0 THEN <<>>
    ELSE (IF vs[1].t = "tuple"
          THEN <<Piece("(", NilV)>> \o Unparse(vs[1].items)
                                    \o <<Piece(")", NilV)>>
          ELSE <<Piece("v", vs[1])>>)
         \o Unparse(Tail(vs))

\* the token stream with every token that is no parenthesis as its value
Shape(toks) ==
    [i \in 1..Len(toks) |->
        IF IsOpen(toks[i]) THEN Piece("(", NilV)
        ELSE IF IsClose(toks[i]) THEN Piece(")", NilV)
        ELSE Piece("v", Scalar(toks[i], i + 1).val)]

\* the typed value the claim names for a quoted string, digits and NIL
C1_IsTyped(tok) == IsNILToken(tok) \/ IsQuotedToken(tok) \/ IsDigitStr(tok)

C1_Expected(tok) ==
    IF IsNILToken(tok) THEN NilV
    ELSE IF IsQuotedToken(tok) THEN StrV(SubSeq(tok, 2, Len(tok) - 1))
    ELSE IntV(DecVal(tok))

C1_Pair == TupleV(<<IntV(123), StrV(<<"f", "o", "o">>)>>)

\* C1: parse_response on one top-level value returns a 1-tuple of the typed
\* value: a quoted string gives its text without the quotes, digits give the
\* integer, NIL the null value, () the empty tuple, (123 "foo") the tuple
\* (123, 'foo'); values side by side give one element each, in input order.
C1_TypedValues ==
    call = "parse_response" =>
        \A toks \in {Lex(text, literals)} :
            /\ (\A i \in 1..Len(toks) : C1_IsTyped(toks[i].tok))
                  => /\ outcome = "returned"
                     /\ ret = [i \in 1..Len(toks) |-> C1_Expected(toks[i].tok)]
            /\ text = <<"(", ")">>
                  => outcome = "returned" /\ ret = <<TupleV(<<>>)>>
            /\ text = <<"(", "1", "2", "3", " ", "\"", "f", "o", "o", "\"", ")">>
                  => outcome = "returned" /\ ret = <<C1_Pair>>
            /\ text = <<"1", "2", "3", " ",
                        "(", "1", "2", "3", " ", "\"", "f", "o", "o", "\"", ")">>
                  => outcome = "returned" /\ ret = <<IntV(123), C1_Pair>>

\* an integer beside the list (123 "foo") has been parsed
C1_Witness ==
    /\ call = "parse_response"
    /\ text = <<"1", "2", "3", " ",
                "(", "1", "2", "3", " ", "\"", "f", "o", "o", "\"", ")">>
    /\ ret = <<IntV(123), C1_Pair>>

\* C2: for a balanced token stream the tuple tree returned mirrors the
\* parentheses: written back with "(" and ")" around every tuple it is the
\* token stream again, value for token, at any depth and also where
\* parentheses touch other tokens or each other; a balanced stream without
\* literal markers always parses.
C2_NestingMirrorsParens ==
    call = "parse_response" =>
        \A toks \in {Lex(text, literals)} :
            Balanced(toks) =>
                /\ outcome = "returned" => Unparse(ret) = Shape(toks)
                /\ (\A i \in 1..Len(toks) : ~StartsLiteral(toks[i].tok))
                      => outcome = "returned"

\* "(() 123)": a list in a list, "((" and a ")" before an atom
C2_Witness ==
    /\ call = "parse_response"
    /\ text = <<"(", "(", ")", " ", "1", "2", "3", ")">>
    /\ ret = <<TupleV(<<TupleV(<<>>), IntV(123)>>)>>

\* open lists at the end of the stream; a ")" that closes nothing is an atom
RECURSIVE OpenAt(_, _)
OpenAt(toks, k) ==
    IF k = 0 THEN 0
    ELSE IF IsOpen(toks[k]) THEN OpenAt(toks, k - 1) + 1
    ELSE IF IsClose(toks[k]) /\ OpenAt(toks, k - 1) > 0
    THEN OpenAt(toks, k - 1) - 1
    ELSE OpenAt(toks, k - 1)

\* the innermost "(" still open at the end: the last one with a balanced rest
InnermostOpen(toks) ==
    CHOOSE p \in 1..Len(toks) :
        /\ IsOpen(toks[p])
        /\ BalancedRange(toks, p + 1, Len(toks))
        /\ \A q \in (p + 1)..Len(toks) :
              ~(IsOpen(toks[q]) /\ BalancedRange(toks, q + 1, Len(toks)))

\* the values between the innermost open "(" and the end of the stream
PartialList(toks) ==
    GenAll(SubSeq(toks, InnermostOpen(toks) + 1, Len(toks)), 1, <<>>).vals

\* C3: when the token stream ends with a "(" still open, at any depth,
\* parse_response raises a ParseError and returns nothing; the error of the
\* missing terminator carries the list built so far for the innermost open
\* "(" (with no literal marker in the stream it is the only error there is).
C3_UnterminatedList ==
    call = "parse_response" =>
        \A toks \in {Lex(text, literals)} :
            OpenAt(toks, Len(toks)) > 0 =>
                /\ outcome = "raised"
                /\ exc.type = "ParseError"
                /\ ret = <<>>
                /\ (\A i \in 1..Len(toks) : ~StartsLiteral(toks[i].tok))
                      => /\ exc.msg = "Tuple incomplete before"
                         /\ exc.vals = PartialList(toks)

\* "(123 (NIL "foo"": two lists open, the inner one holding NIL and 'foo'
C3_Witness ==
    /\ call = "parse_response"
    /\ text = <<"(", "1", "2", "3", " ", "(", "N", "I", "L", " ",
                "\"", "f", "o", "o", "\"">>
    /\ outcome = "raised"
    /\ exc.vals = <<NilV, StrV(<<"f", "o", "o">>)>>

\* the length a literal marker {N} declares
DeclaredLength(tok) == DecVal(SubSeq(tok, 2, Len(tok) - 1))

\* C4: a literal marker {N} parses to exactly the payload bound to it, and
\* only when the payload's length is N; a marker without a payload, or with
\* a payload of another length, makes parse_response raise a ParseError.
C4_LiteralLength ==
    call = "parse_response" =>
        \A toks \in {Lex(text, literals)} :
            /\ outcome = "returned" =>
                  \A i \in 1..Len(toks) :
                      IsLiteralMarker(toks[i].tok) =>
                          /\ toks[i].has_lit
                          /\ Len(toks[i].lit) = DeclaredLength(toks[i].tok)
                          /\ Unparse(ret)[i] = Piece("v", StrV(toks[i].lit))
            /\ (\E i \in 1..Len(toks) :
                    /\ IsLiteralMarker(toks[i].tok)
                    /\ \/ ~toks[i].has_lit
                       \/ Len(toks[i].lit) # DeclaredLength(toks[i].tok))
                  => outcome = "raised" /\ exc.type = "ParseError" /\ ret = <<>>
            /\ (Len(toks) >= 1 /\ IsLiteralMarker(toks[1].tok)
                  /\ ~toks[1].has_lit)
                  => exc.msg = "No literal corresponds to"
            /\ (Len(toks) >= 1 /\ IsLiteralMarker(toks[1].tok)
                  /\ toks[1].has_lit
                  /\ Len(toks[1].lit) # DeclaredLength(toks[1].tok))
                  => exc.msg = "Expecting literal of size"

\* "({2} 123)" with the payload "hi": the marker gave the two characters
C4_Witness ==
    /\ call = "parse_response"
    /\ text = <<"(", "{", "2", "}", " ", "1", "2", "3", ")">>
    /\ literals = << <<"h", "i">> >>
    /\ ret = <<TupleV(<<StrV(<<"h", "i">>), IntV(123)>>)>>

(***************************************************************************)
(* Properties of parse_fetch_response.  The batch is read as the values    *)
(* parse_response gives for the same text: message m is the pair of        *)
(* values 2m-1 (the message number) and 2m (the field list).               *)
(***************************************************************************)
NMessages(vals) == (Len(vals) + 1) \div 2
SeqValue(vals, m) == vals[2 * m - 1]
FieldList(vals, m) == vals[2 * m]

NPairs(lst) == Len(lst.items) \div 2
NameAt(lst, j) == lst.items[2 * j - 1]
ValueAt(lst, j) == lst.items[2 * j]

\* pair j of the list names the field key (in any letter case)
IsField(lst, j, key) ==
    NameAt(lst, j).t = "str" /\ Upper(NameAt(lst, j).s) = key

HasField(lst, key) == \E j \in 1..NPairs(lst) : IsField(lst, j, key)

LastField(lst, key) ==
    CHOOSE j \in 1..NPairs(lst) :
        /\ IsField(lst, j, key)
        /\ \A k \in (j + 1)..NPairs(lst) : ~IsField(lst, k, key)

\* the key of message m in the table: its UID if it has one, else its number
MessageKey(vals, m) ==
    IF HasField(FieldList(vals, m), kUID)
    THEN IntOf(ValueAt(FieldList(vals, m),
                       LastField(FieldList(vals, m), kUID)))
    ELSE IntOf(SeqValue(vals, m))

\* the tokens the first k values were written with
TokensOf(vals, k) == Len(Unparse(SubSeq(vals, 1, k)))

\* C5: when a message's field list has a UID field, the record is stored
\* under the UID value instead of the sequence number, and it holds SEQ, the
\* sequence number, together with the other fields.
C5_UIDReplacesKey ==
    (call = "parse_fetch_response" /\ outcome = "returned") =>
        \A r \in {parse_response(text, literals)} :
            (Len(r.vals) = 2 /\ HasField(FieldList(r.vals, 1), kUID)) =>
                LET lst == FieldList(r.vals, 1)
                    seq == IntOf(SeqValue(r.vals, 1))
                    uid == MessageKey(r.vals, 1)
                IN  /\ uid \in DOMAIN table
                    /\ table[uid][kSEQ] = IntV(seq)
                    /\ \A j \in 1..NPairs(lst) :
                          ~IsField(lst, j, kUID)
                              => Upper(NameAt(lst, j).s) \in DOMAIN table[uid]
                    /\ seq # uid => seq \notin DOMAIN table

\* C6: every record of the table has a SEQ entry, the sequence number that
\* came before the message's field list, whatever the field list holds.
C6_SeqIsSequenceNumber ==
    (call = "parse_fetch_response" /\ outcome = "returned") =>
        \A r \in {parse_response(text, literals)} :
            \A k \in DOMAIN table :
                /\ kSEQ \in DOMAIN table[k]
                /\ \E m \in 1..NMessages(r.vals) :
                      /\ MessageKey(r.vals, m) = k
                      /\ table[k][kSEQ] = IntV(IntOf(SeqValue(r.vals, m)))

\* the record and key the decoder makes of message m on its own
OwnRecord(vals, m, off) ==
    FieldLoop(FieldList(vals, m).items, 1, IntOf(SeqValue(vals, m)),
              NewRecord(IntOf(SeqValue(vals, m))), off, FALSE)

OffsetRead == IF system_offset = <<>> THEN 0 ELSE system_offset[1]

\* C7: the table has an entry for every message of the batch, under the
\* message's key and holding the message's own record: none is dropped or
\* replaced by the record of another message.
C7_EveryMessageKept ==
    (call = "parse_fetch_response" /\ outcome = "returned") =>
        \A r \in {parse_response(text, literals)} :
            \A m \in 1..NMessages(r.vals) :
                \A own \in {OwnRecord(r.vals, m, OffsetRead)} :
                    /\ own.msg_id \in DOMAIN table
                    /\ table[own.msg_id] = own.msg_data

\* message m of the batch has no list of an even number of elements
Malformed(vals, m) ==
    \/ 2 * m > Len(vals)
    \/ FieldList(vals, m).t # "tuple"
    \/ Len(FieldList(vals, m).items) % 2 # 0

MalformedMsg(vals, m) ==
    IF 2 * m > Len(vals) THEN "unexpected EOF"
    ELSE IF FieldList(vals, m).t # "tuple" THEN "bad response type"
    ELSE "uneven number of response items"

\* C8: a message number must be followed by a list of an even number of
\* elements.  A batch with a message where the list has an odd count, is no
\* list, or is missing at the end of the response returns no table; the
\* decode that gets to that message raises a ParseError, and with a valid
\* message number the one of that defect.
C8_EvenFieldList ==
    call = "parse_fetch_response" =>
        \A r \in {parse_response(text, literals)} :
            r.ok =>
                \A m \in 1..NMessages(r.vals) :
                    Malformed(r.vals, m) =>
                        /\ outcome = "raised"
                        /\ table = <<>>
                        /\ consumed > TokensOf(r.vals, 2 * m - 2)
                              => /\ exc.type = "ParseError"
                                 /\ IntConvertible(SeqValue(r.vals, m))
                                       => exc.msg = MalformedMsg(r.vals, m)

\* "7 (Ab 42 Ab)": three elements after message number 7
C8_Witness ==
    /\ call = "parse_fetch_response"
    /\ text = <<"7", " ", "(", "A", "b", " ", "4", "2", " ", "A", "b", ")">>
    /\ outcome = "raised"
    /\ exc.msg = "uneven number of response items"

\* C9: the value in message-number position must be an Integer; Nil, a list
\* or text (quoted or literal text too) there raises the ParseError
\* 'invalid message ID'.
C9_MessageIdIsInteger ==
    call = "parse_fetch_response" =>
        \A r \in {parse_response(text, literals)} :
            (r.ok /\ Len(r.vals) >= 1 /\ SeqValue(r.vals, 1).t # "int") =>
                /\ outcome = "raised"
                /\ exc.type = "ParseError"
                /\ exc.msg = "invalid message ID"

\* message m is the last one of the batch with its key
LastWithKey(vals, m) ==
    \A q \in (m + 1)..NMessages(vals) : MessageKey(vals, q) # MessageKey(vals, m)

\* the keys the fields of a list give: the names in upper case, UID left out
FieldKeys(lst) ==
    {Upper(NameAt(lst, j).s) : j \in {i \in 1..NPairs(lst) : ~IsField(lst, i, kUID)}}

\* C10: the keys of a record are the field names received, in upper case
\* (beside SEQ, which the decoder enters itself), so names that differ in
\* letter case give one key, and a name that is UID or INTERNALDATE in any
\* letter case is handled as such: UID gives the table key and no entry,
\* INTERNALDATE an entry that is a date.
C10_KeysUpperCase ==
    (call = "parse_fetch_response" /\ outcome = "returned") =>
        \A r \in {parse_response(text, literals)} :
            \A m \in 1..NMessages(r.vals) :
                LET lst == FieldList(r.vals, m)
                    key == MessageKey(r.vals, m)
                IN  /\ key \in DOMAIN table
                    /\ LastWithKey(r.vals, m) =>
                          /\ DOMAIN table[key] = {kSEQ} \cup FieldKeys(lst)
                          /\ \A k \in DOMAIN table[key] : Upper(k) = k
                          /\ HasField(lst, kINTERNALDATE)
                                => table[key][kINTERNALDATE].t = "datetime"

\* "7 (uid 42 internaldate "16-Mar-2010 16:45:32 +0100")": both special
\* names in lower case
C10_Witness ==
    /\ call = "parse_fetch_response"
    /\ outcome = "returned"
    /\ text = <<"7", " ", "(", "u", "i", "d", " ", "4", "2", " ">>
              \o tinternaldate \o <<" ">> \o tDate \o <<")">>
    /\ DOMAIN table = {42}
    /\ DOMAIN table[42] = {kSEQ, kINTERNALDATE}

(***************************************************************************)
(* Properties of the INTERNALDATE conversion, on the texts of DateMessage: *)
(* the date is at characters 18 to 43 of the text.                         *)
(***************************************************************************)
DateOf(txt) == SubSeq(txt, 18, 43)

\* seconds of the wall-clock time of day stated in a date text
StatedSeconds(d) ==
    DecVal(SubSeq(d, 13, 14)) * 3600 + DecVal(SubSeq(d, 16, 17)) * 60
        + DecVal(SubSeq(d, 19, 20))

\* days from 0001-01-01 to the day stated in a date text
StatedDays(d) ==
    WallDays(DecVal(SubSeq(d, 8, 11)), Mon2num(SubSeq(d, 4, 6)),
             DecVal(SubSeq(d, 1, 2)))

\* the declared offset in minutes: hours*60+minutes, negative for '-'
DeclaredOffset(d) ==
    (IF d[22] = "-" THEN -1 ELSE 1)
        * (DecVal(SubSeq(d, 23, 24)) * 60 + DecVal(SubSeq(d, 25, 26)))

C12_OnlyParseError ==
    (call # "none" /\ outcome = "raised") => exc.type = "ParseError"

\* the decoder rejects message m: its number converts to no integer, what
\* follows is no list of an even number of elements, or a field of the
\* list is rejected
BadMessage(vals, m) ==
    \/ ~IntConvertible(SeqValue(vals, m))
    \/ Malformed(vals, m)
    \/ \E off \in HostOffsets : ~OwnRecord(vals, m, off).ok

SameResult(a, b) ==
    /\ a.outcome = b.outcome
    /\ a.ret = b.ret
    /\ a.table = b.table
    /\ a.exc = b.exc

ExpectedEvent(line) ==
    IF line = <<"1", " ", "E", "X", "I", "S", "T", "S">>
    THEN <<1, <<"E", "X", "I", "S", "T", "S">> >>
    ELSE IF line = <<"2", " ", "E", "X", "I", "S", "T", "S">>
    THEN <<2, <<"E", "X", "I", "S", "T", "S">> >>
    ELSE <<1, <<"E", "X", "P", "U", "N", "G", "E">> >>

ExpectedEvents(lines) == [i \in 1..Len(lines) |-> ExpectedEvent(lines[i])]

\* the last n elements of a sequence
LastN(s, n) == SubSeq(s, Len(s) - n + 1, Len(s))

\* C15: a wait whose timeout elapses returns the events it collected
\* (possibly none) without an error, and the session is still Listening:
\* no DONE was sent and a further wait can begin without starting idle again.
C15_TimeoutKeepsListening ==
    [][WaitTimeout =>
          /\ idle'.handed.op = "idle_check"
          /\ ~idle'.handed.error
          /\ Len(idle'.handed.events) <= Len(idle.lines)
          /\ idle'.handed.events
               = ExpectedEvents(LastN(idle.lines, Len(idle'.handed.events)))
          /\ idle'.state = "Listening"
          /\ ~idle'.waiting
          /\ ~idle'.acked
          /\ idle'.nsessions = idle.nsessions]_vars

\* a wait has timed out with one event and the session listens on
C15_Witness ==
    /\ idle.handed.op = "idle_check"
    /\ ~idle.handed.error
    /\ idle.handed.events = << <<1, kEXISTS>> >>
    /\ idle.state = "Listening"
    /\ ~idle.waiting

\* C16: the events of an idle session are the (number, keyword) of the
\* untagged lines in the order the lines arrived, none lost, duplicated or
\* reordered, in the session's list and in what the stop hands over.
C16_ArrivalOrder ==
    /\ idle.state # "Idle" => idle.events = ExpectedEvents(idle.lines)
    /\ (idle.state = "Idle" /\ idle.handed.op = "idle_done")
          => idle.handed.events = ExpectedEvents(idle.lines)

\* EXISTS then EXPUNGE: [(1, EXISTS), (1, EXPUNGE)]
C16_Witness ==
    /\ idle.state = "Idle"
    /\ idle.handed.op = "idle_done"
    /\ idle.lines = << <<"1", " ">> \o kEXISTS, <<"1", " ">> \o kEXPUNGE >>
    /\ idle.handed.events = << <<1, kEXISTS>>, <<1, kEXPUNGE>> >>

\* C17: the events of the waits of one session accumulate until the stop;
\* the stop hands over all of them with the acknowledgement text and the
\* list is empty afterwards, so a session returns no event of an earlier one.
C17_AccumulateThenClear ==
    /\ [][(WaitBegin \/ WaitTimeout \/ WaitFail \/ StopRequest)
             => idle'.events = idle.events]_vars
    /\ [][DrainAck =>
             /\ idle'.handed.events = idle.events
             /\ Len(idle'.handed.events) = Len(idle.lines)
             /\ idle'.handed.text = AckText
             /\ idle'.events = <<>>]_vars
    /\ [](idle.state = "Idle" => idle.events = <<>>)

\* the second session ends with one event, the first had the other two
C17_Witness ==
    /\ idle.state = "Idle"
    /\ idle.nsessions = 2
    /\ idle.npush = 3
    /\ idle.handed.op = "idle_done"
    /\ Len(idle.handed.events) = 1
    /\ idle.events = <<>>

\* C18: the session moves only Idle -> Listening -> Draining -> Idle.  It
\* leaves Listening only by a stop request, never by a wait that ends; it
\* is Idle again only when the acknowledgement was read after the stop; and
\* no event is classified while it is Idle.
C18_StateCycle ==
    [][/\ idle.state # idle'.state =>
             \/ idle.state = "Idle" /\ idle'.state = "Listening"
             \/ /\ idle.state = "Listening" /\ idle'.state = "Draining"
                /\ ~idle.waiting
                /\ idle'.handed = idle.handed
             \/ /\ idle.state = "Draining" /\ idle'.state = "Idle"
                /\ idle.acked
                /\ idle.wire # <<>> /\ idle.wire[1].tagged
                /\ idle'.handed.text = idle.wire[1].txt
       /\ idle.state = "Idle" => idle'.events = idle.events]_vars

\* two whole cycles have been made
C18_Witness ==
    /\ idle.state = "Idle"
    /\ idle.nsessions = 2
    /\ idle.handed.op = "idle_done"
    /\ idle.handed.text = AckText

(***************************************************************************)
(* Properties of the body structure builder.                               *)
(***************************************************************************)
\* the multipart flags of a reported structure, level by level
RECURSIVE SentClasses(_)
SentClasses(sh) ==
    [multi |-> sh.multi,
     kids |-> [i \in 1..Len(sh.kids) |-> SentClasses(sh.kids[i])]]

\* the multipart flags of a built node, level by level
RECURSIVE BuiltClasses(_)
BuiltClasses(node) ==
    [multi |-> node.is_multipart,
     kids |-> [i \in 1..Len(node.parts) |-> BuiltClasses(node.parts[i])]]

\* C19: a BODY value is multipart exactly when the first element of its
\* parsed list is a list, and so for the children of a multipart node at
\* their own level: the flags of the built structure are those of the
\* reported MIME structure, to the same depth.
C19_MultipartByFirstElement ==
    body.done =>
        /\ body.node.is_multipart
              <=> (table[7][kBODY].items[1].t = "tuple")
        /\ BuiltClasses(body.node) = SentClasses(body.sent)

\* multipart/mixed of a multipart of one leaf and a leaf
C19_Witness ==
    /\ body.done
    /\ body.sent = Multi(<<Multi(<<Leaf(TRUE)>>), Leaf(FALSE)>>)
    /\ body.node.is_multipart
    /\ body.node.parts[1].is_multipart
    /\ ~body.node.parts[2].is_multipart

(***************************************************************************)
(* Properties of the fields of a record.                                   *)
(***************************************************************************)
\* C20: for every field other than UID and INTERNALDATE the record holds,
\* under the field's name in upper case, exactly the parsed value received
\* for that name (the last one when the name comes more than once):
\* integers, text, Nil and nested lists alike.
C20_StoredVerbatim ==
    (call = "parse_fetch_response" /\ outcome = "returned") =>
        \A r \in {parse_response(text, literals)} :
            \A m \in 1..NMessages(r.vals) :
                LastWithKey(r.vals, m) =>
                    LET lst == FieldList(r.vals, m)
                        rec == table[MessageKey(r.vals, m)]
                    IN  \A j \in 1..NPairs(lst) :
                            LET word == Upper(NameAt(lst, j).s)
                            IN  word \notin {kUID, kINTERNALDATE} =>
                                    /\ word \in DOMAIN rec
                                    /\ rec[word]
                                         = ValueAt(lst, LastField(lst, word))

\* "7 (Ab (Ab NIL) Ab NIL)": a nested list, then Nil for the same name
C20_Witness ==
    /\ call = "parse_fetch_response"
    /\ outcome = "returned"
    /\ text = <<"7", " ", "(", "A", "b", " ", "(", "A", "b", " ",
                "N", "I", "L", ")", " ", "A", "b", " ", "N", "I", "L", ")">>
    /\ table[7][<<"A", "B">>] = NilV

(***************************************************************************)
(* Typing by form.  Token streams of plain atoms and quoted strings whose  *)
(* contents look alike: digits, NIL in both cases, a mixed-case word, each *)
(* plain and quoted, with parentheses around them.                         *)
(***************************************************************************)
MaxForm == 3

tnil == <<"n", "i", "l">>
tQ123 == <<"\"", "1", "2", "3", "\"">>
tQNIL == <<"\"", "N", "I", "L", "\"">>
tQAb == <<"\"", "A", "b", "\"">>
FormTokens == {t123, tQ123, tNIL, tQNIL, tnil, tAb, tQAb, tOpen, tClose}

InitForm ==
    /\ \E toks \in SeqsUpTo(FormTokens, MaxForm) : text = Render(toks)
    /\ literals = <<>>
    /\ InitCall
    /\ body = NoBody

SpecForm == InitForm /\ [][Next]_vars

\* what the form of a token that is no parenthesis says its value is
FormValue(tok) ==
    IF IsQuotedToken(tok) THEN StrV(SubSeq(tok, 2, Len(tok) - 1))
    ELSE IF IsNILToken(tok) THEN NilV
    ELSE IF \A k \in 1..Len(tok) : tok[k] \in Digits THEN IntV(DecVal(tok))
    ELSE StrV(tok)

FormShape(toks) ==
    [i \in 1..Len(toks) |->
        IF IsOpen(toks[i]) THEN Piece("(", NilV)
        ELSE IF IsClose(toks[i]) THEN Piece(")", NilV)
        ELSE Piece("v", FormValue(toks[i].tok))]

\* C21: a token is typed by its form alone.  A plain atom of decimal digits
\* is an Integer, any other plain atom (NIL apart) is Text with its case
\* kept, a double-quoted token is Text with just its two quotes taken off:
\* quoted digits and quoted NIL are Text, never an Integer or the null value.
C21_TypedByForm ==
    call = "parse_response" =>
        \A toks \in {Lex(text, literals)} :
            Balanced(toks) =>
                /\ outcome = "returned"
                /\ Unparse(ret) = FormShape(toks)

C21_Witness ==
    /\ call = "parse_response"
    /\ outcome = "returned"
    /\ text = Render(<<tQ123, tQNIL, tnil>>)
    /\ ret = <<StrV(t123), StrV(tNIL), StrV(tnil)>>

\* a ")" among the tokens that closes no "(" opened before it
UnmatchedClose(toks) ==
    \E k \in 1..Len(toks) : Closes(toks, 1, k) > Opens(toks, 1, k)

\* C22: an unmatched parenthesis is always a parse error: when a ")" closes
\* no open "(", as in ")" or "123 )", parse_response fails with a ParseError
\* and returns no value for it.
C22_UnmatchedCloseFails ==
    call = "parse_response" =>
        \A toks \in {Lex(text, literals)} :
            UnmatchedClose(toks) =>
                /\ outcome = "raised"
                /\ exc.type = "ParseError"

(***************************************************************************)
(* Field lists with UID.  One message, number 7, with up to MaxPairs       *)
(* name/value pairs: UID in both letter cases, another name, a name that   *)
(* is no text, and values that are and are not numbers.                    *)
(***************************************************************************)
MaxPairs == 3

FieldNames == {tUID, tuid, tAb, t42}
FieldValues == {t42, t7, tNIL, tAb}
FieldPairs == {<<n, v>> : n \in FieldNames, v \in FieldValues}

RECURSIVE Flatten(_)
Flatten(ps) == IF ps = <<>> THEN <<>> ELSE Head(ps) \o Flatten(Tail(ps))

FieldMessage(ps) == <<t7, tOpen>> \o Flatten(ps) \o <<tClose>>

InitFields ==
    /\ \E ps \in SeqsUpTo(FieldPairs, MaxPairs) : text = Render(FieldMessage(ps))
    /\ literals = <<>>
    /\ InitCall
    /\ body = NoBody

SpecFields == InitFields /\ [][Next]_vars

\* the pairs of a field list that name UID
UIDPairs(lst) == {j \in 1..NPairs(lst) : IsField(lst, j, kUID)}

\* the index of the pair that stands at place q once pair j is moved to
\* place k and the other pairs keep their order
PairAt(j, k, q) ==
    IF q = k THEN j
    ELSE LET r == IF q < k THEN q ELSE q - 1
         IN  IF r < j THEN r ELSE r + 1

MovePair(items, j, k) ==
    [x \in 1..Len(items) |->
        items[2 * PairAt(j, k, (x + 1) \div 2) - (x % 2)]]

\* C23: the result does not depend on where the UID field stands in the
\* field list.  With the UID pair of a list (the one pair that names UID)
\* moved to any other pair position, the other pairs in their order, the
\* decode gives the same table key and the same record, and it fails when
\* the decode of the list as received fails.
C23_UIDPositionFree ==
    call = "parse_fetch_response" =>
        \A r \in {parse_response(text, literals)} :
            (/\ r.ok /\ Len(r.vals) = 2
             /\ IntConvertible(SeqValue(r.vals, 1))
             /\ ~Malformed(r.vals, 1)
             /\ Cardinality(UIDPairs(FieldList(r.vals, 1))) = 1) =>
                LET lst == FieldList(r.vals, 1)
                    seq == IntOf(SeqValue(r.vals, 1))
                    j == CHOOSE u \in UIDPairs(lst) : TRUE
                IN  \A k \in 1..NPairs(lst), off \in HostOffsets :
                        \A own \in {FieldLoop(MovePair(lst.items, j, k), 1, seq,
                                              NewRecord(seq), off, FALSE)} :
                            /\ own.ok <=> outcome = "returned"
                            /\ own.ok =>
                                  table = Store(<<>>, own.msg_id, own.msg_data)

C23_Witness ==
    /\ call = "parse_fetch_response"
    /\ outcome = "returned"
    /\ text = Render(FieldMessage(<<<<tAb, t42>>, <<tuid, t42>>, <<tAb, t7>>>>))
    /\ table = Store(<<>>, 42, DictSet(NewRecord(7), <<"A", "B">>, IntV(7)))

(***************************************************************************)
(* Repeated fields and the UID field.                                      *)
(***************************************************************************)
\* the pairs of a list that name the field word, and the last of them
Occurrences(lst, word) == {j \in 1..NPairs(lst) : IsField(lst, j, word)}

LastOccurrence(lst, word) ==
    CHOOSE j \in Occurrences(lst, word) :
        \A k \in Occurrences(lst, word) : k <= j

Repeated(lst, word) == Cardinality(Occurrences(lst, word)) >= 2

\* C24: when a field list names a field more than once (names compared in
\* upper case), the last occurrence wins: the record holds the value of the
\* last occurrence, and with several UID fields the table key is the value
\* of the last UID field.
C24_LastOccurrenceWins ==
    (call = "parse_fetch_response" /\ outcome = "returned") =>
        \A r \in {parse_response(text, literals)} :
            \A m \in 1..NMessages(r.vals) :
                LET lst == FieldList(r.vals, m)
                IN  /\ Repeated(lst, kUID) =>
                          IntOf(ValueAt(lst, LastOccurrence(lst, kUID)))
                              \in DOMAIN table
                    /\ LastWithKey(r.vals, m) =>
                          \A j \in 1..NPairs(lst) :
                              LET word == Upper(NameAt(lst, j).s)
                                  last == ValueAt(lst, LastOccurrence(lst, word))
                                  rec == table[MessageKey(r.vals, m)]
                              IN  (Repeated(lst, word) /\ word # kUID) =>
                                      /\ word \in DOMAIN rec
                                      /\ rec[word] =
                                           IF word = kINTERNALDATE
                                           THEN _convert_INTERNALDATE(
                                                    last, OffsetRead).val
                                           ELSE last
                    /\ (Repeated(lst, kUID) /\ NMessages(r.vals) = 1) =>
                          DOMAIN table =
                              {IntOf(ValueAt(lst, LastOccurrence(lst, kUID)))}

\* "7 (uid 7 UID 42)": the key is 42, the value of the second UID field
C24_Witness ==
    /\ call = "parse_fetch_response"
    /\ outcome = "returned"
    /\ text = Render(<<t7, tOpen, tuid, t7, tUID, t42, tClose>>)
    /\ DOMAIN table = {42}

\* a value int() does not take: None, a tuple, or text with a character
\* that is no digit
NoNumber(v) ==
    \/ v.t = "nil"
    \/ v.t = "tuple"
    \/ v.t = "str" /\ (v.s = <<>> \/ \E c \in 1..Len(v.s) : v.s[c] \notin Digits)

\* the UID pairs of a list whose value is no number
BadUIDPairs(lst) == {j \in UIDPairs(lst) : NoNumber(ValueAt(lst, j))}

\* C25: the UID field is used up as the table key and is not stored: no
\* record returned has a UID entry.  A UID value that is not convertible to
\* an integer makes the decode fail, and the decode that gets to that pair
\* raises the ParseError 'invalid UID' for that value.
C25_UIDConsumed ==
    call = "parse_fetch_response" =>
        /\ outcome = "returned" =>
              \A k \in DOMAIN table : kUID \notin DOMAIN table[k]
        /\ \A r \in {parse_response(text, literals)} :
              (/\ r.ok /\ Len(r.vals) = 2
               /\ IntConvertible(SeqValue(r.vals, 1))
               /\ ~Malformed(r.vals, 1)
               /\ BadUIDPairs(FieldList(r.vals, 1)) # {}) =>
                  LET lst == FieldList(r.vals, 1)
                      seq == IntOf(SeqValue(r.vals, 1))
                      j == CHOOSE u \in BadUIDPairs(lst) :
                               \A w \in BadUIDPairs(lst) : u <= w
                      before == FieldLoop(SubSeq(lst.items, 1, 2 * (j - 1)), 1,
                                          seq, NewRecord(seq), OffsetRead, FALSE)
                  IN  /\ outcome = "raised"
                      /\ table = <<>>
                      /\ before.ok =>
                            exc = ParseError("invalid UID",
                                             <<ValueAt(lst, j)>>, <<>>)

\* "7 (Ab 42 UID NIL)": the pair before is stored, then UID NIL is rejected
C25_Witness ==
    /\ call = "parse_fetch_response"
    /\ outcome = "raised"
    /\ text = Render(FieldMessage(<<<<tAb, t42>>, <<tUID, tNIL>>>>))
    /\ exc = ParseError("invalid UID", <<NilV>>, <<>>)

====
